---- MODULE Spec2Model ----
(***************************************************************************)
(* Model of src/app.js: the bootstrap script of the Config-Files demo.     *)
(*                                                                         *)
(* The script runs top to bottom in one turn of the JavaScript event loop  *)
(* (variable pc), starting two asynchronous connection attempts and one    *)
(* listen call on the way.  The callbacks of these three operations run    *)
(* only after the script has run to completion (pc = "done"), in any order.*)
(* A thrown error inside a callback is an uncaught exception and ends the  *)
(* process (alive = FALSE); nothing runs afterwards.                       *)
(***************************************************************************)
EXTENDS Integers, Sequences, FiniteSets, TLC

\* ------------------------------------------------------------------ bounds
\* number of distinct non-empty strings an environment variable may hold
NumEnvValues == 1

\* --------------------------------------------------------------- constants
SampleValues == <<"env-a", "env-b", "env-c">>

EnvValues == {SampleValues[i] : i \in 1..NumEnvValues}

\* the fields of the configuration structure read by app.js
Fields == {"mongo", "redis", "port", "secret", "staticPath"}

\* config.js: the fixed default of every field
Defaults ==
    [f \in Fields |-> CASE f = "mongo"      -> "default-mongo"
                        [] f = "redis"      -> "default-redis"
                        [] f = "port"       -> "default-port"
                        [] f = "secret"     -> "default-secret"
                        [] f = "staticPath" -> "default-static"]

\* every environment: each variable is unset (not in the domain), the empty
\* string, or a non-empty string
Environments ==
    UNION {[S -> {""} \cup EnvValues] : S \in SUBSET Fields}

\* C5 mutant: an empty variable counts as set
Resolve_KeepEmpty(e) ==
    [f \in Fields |-> IF f \in DOMAIN e THEN e[f] ELSE Defaults[f]]

\* config.js: process.env.X || default, field by field
Resolve(e) ==
    [f \in Fields |-> IF f \in DOMAIN e /\ e[f] # "" THEN e[f] ELSE Defaults[f]]

\* console.log texts of the two callbacks
ListenMessage == "Listening on port"

MongoMessage == "Could not connect to database"

Unresolved == [f \in Fields |-> ""]

\* the registrations made on the express app, in source order
MiddlewareOrder ==
    <<"static", "compression", "urlencoded", "session",
      "engine", "favicon", "cookieParser", "router">>

VARIABLES
    env,            \* process.env
    config,         \* the object exported by config.js
    pc,             \* position of the top-level script
    alive,          \* the process has not been ended by an uncaught error
    mongoState,     \* "idle", "pending", "connected", "failed"
    mongoAttempts,  \* number of mongoose.connect calls
    mongoUrl,       \* connection string given to mongoose.connect
    redisState,     \* "none", "created", "pending", "connected", "failed"
    redisAttempts,  \* number of redisClient.connect calls
    redisUrl,       \* url given to redis.createClient
    app,            \* "none" before express(), "created" after
    stack,          \* registrations on app: sequence of [name, arg]
    sessionClient,  \* client handle held by the session store
    listenState,    \* "none", "binding", "listening", "failed"
    listenPort,     \* port given to app.listen
    log             \* console output: sequence of [msg, arg]

vars == <<env, config, pc, alive, mongoState, mongoAttempts, mongoUrl,
          redisState, redisAttempts, redisUrl, app, stack, sessionClient,
          listenState, listenPort, log>>

mongoVars  == <<mongoState, mongoAttempts, mongoUrl>>
redisVars  == <<redisState, redisAttempts, redisUrl>>
listenVars == <<listenState, listenPort>>
appVars    == <<app, stack, sessionClient>>

Entry(m, a) == [msg |-> m, arg |-> a]

Names(s) == [i \in 1..Len(s) |-> s[i].name]

\* the top-level script is at statement p
At(p) == alive /\ pc = p

\* a callback may run: the script ran to completion and the process lives
CallbackReady == alive /\ pc = "done"

Init ==
    /\ env \in Environments
    /\ config = Unresolved
    /\ pc = "config"
    /\ alive = TRUE
    /\ mongoState = "idle"
    /\ mongoAttempts = 0
    /\ mongoUrl = ""
    /\ redisState = "none"
    /\ redisAttempts = 0
    /\ redisUrl = ""
    /\ app = "none"
    /\ stack = <<>>
    /\ sessionClient = "none"
    /\ listenState = "none"
    /\ listenPort = ""
    /\ log = <<>>

\* ------------------------------------------------------ top-level script
\* const config = require('./config.js')
LoadConfig ==
    /\ At("config")
    /\ config' = Resolve(env)
    /\ pc' = "mongoose"
    /\ UNCHANGED <<env, alive, mongoVars, redisVars, appVars, listenVars, log>>

\* C4 mutant: the script waits for the connection before going on
MongooseConnect_Await ==
    /\ At("mongoose")
    /\ mongoState' = "connected"
    /\ mongoAttempts' = mongoAttempts + 1
    /\ mongoUrl' = config["mongo"]
    /\ pc' = "redisCreate"
    /\ UNCHANGED <<env, config, alive, redisVars, appVars, listenVars, log>>

\* mongoose.connect(config.connections.mongo, callback)
MongooseConnect ==
    /\ At("mongoose")
    /\ mongoState' = "pending"
    /\ mongoAttempts' = mongoAttempts + 1
    /\ mongoUrl' = config["mongo"]
    /\ pc' = "redisCreate"
    /\ UNCHANGED <<env, config, alive, redisVars, appVars, listenVars, log>>

\* const redisClient = redis.createClient({legacyMode, url})
RedisCreateClient ==
    /\ At("redisCreate")
    /\ redisState' = "created"
    /\ redisUrl' = config["redis"]
    /\ pc' = "redisConnect"
    /\ UNCHANGED <<env, config, alive, mongoVars, redisAttempts, appVars,
                   listenVars, log>>

\* redisClient.connect().catch(console.error)
RedisConnect ==
    /\ At("redisConnect")
    /\ redisState' = "pending"
    /\ redisAttempts' = redisAttempts + 1
    /\ pc' = "express"
    /\ UNCHANGED <<env, config, alive, mongoVars, redisUrl, appVars,
                   listenVars, log>>

\* const app = express()
ExpressCreate ==
    /\ At("express")
    /\ app' = "created"
    /\ pc' = "static"
    /\ UNCHANGED <<env, config, alive, mongoVars, redisVars, stack,
                   sessionClient, listenVars, log>>

\* one registration on app, then on to the next statement
Register(p, name, arg, next) ==
    /\ At(p)
    /\ app = "created"
    /\ stack' = Append(stack, [name |-> name, arg |-> arg])
    /\ pc' = next
    /\ UNCHANGED <<env, config, alive, mongoVars, redisVars, app,
                   listenVars, log>>

\* app.use('/assets', express.static(path.resolve(config.staticAssets.path)))
UseStatic ==
    /\ Register("static", "static", config["staticPath"], "compression")
    /\ UNCHANGED sessionClient

\* C3 mutant: compression is never registered
UseCompression_Skipped ==
    /\ At("compression")
    /\ pc' = "urlencoded"
    /\ UNCHANGED <<env, config, alive, mongoVars, redisVars, appVars,
                   listenVars, log>>

\* app.use(compression())
UseCompression ==
    /\ Register("compression", "compression", "", "urlencoded")
    /\ UNCHANGED sessionClient

\* app.use(bodyParser.urlencoded({extended: true}))
UseUrlencoded ==
    /\ Register("urlencoded", "urlencoded", "", "session")
    /\ UNCHANGED sessionClient

\* C10 mutant: the session store is built without the redis client
UseSession_NoClient ==
    /\ Register("session", "session", config["secret"], "engine")
    /\ sessionClient' = "none"

\* app.use(session({store: new RedisStore({client: redisClient}), secret}))
UseSession ==
    /\ Register("session", "session", config["secret"], "engine")
    /\ sessionClient' = "redisClient"

\* app.engine('handlebars', ...); app.set('view engine'); app.set('views')
RegisterEngine ==
    /\ Register("engine", "engine", "", "favicon")
    /\ UNCHANGED sessionClient

\* app.use(favicon(path.resolve(`${config.staticAssets.path}/img/favicon.png`)))
UseFavicon ==
    /\ Register("favicon", "favicon", config["staticPath"], "cookieParser")
    /\ UNCHANGED sessionClient

\* app.use(cookieParser())
UseCookieParser ==
    /\ Register("cookieParser", "cookieParser", "", "router")
    /\ UNCHANGED sessionClient

\* C8 mutant: the route table is mounted twice
MountRouter_Twice ==
    /\ At("router")
    /\ app = "created"
    /\ stack' = stack \o << [name |-> "router", arg |-> "app"],
                            [name |-> "router", arg |-> "app"] >>
    /\ pc' = "listen"
    /\ UNCHANGED <<env, config, alive, mongoVars, redisVars, app,
                   sessionClient, listenVars, log>>

\* router(app)
MountRouter ==
    /\ Register("router", "router", "app", "listen")
    /\ UNCHANGED sessionClient

\* app.listen(config.connections.http.port, callback): the bind is attempted
\* by the call itself, its outcome is delivered to the event loop later
AppListen ==
    /\ At("listen")
    /\ app = "created"
    /\ listenState' = "binding"
    /\ listenPort' = config["port"]
    /\ pc' = "done"
    /\ UNCHANGED <<env, config, alive, mongoVars, redisVars, appVars, log>>

\* ------------------------------------------------------------- callbacks
\* mongoose.connect callback, err falsy: nothing to do
MongoConnectOk ==
    /\ CallbackReady
    /\ mongoState = "pending"
    /\ mongoState' = "connected"
    /\ UNCHANGED <<env, config, pc, alive, mongoAttempts, mongoUrl, redisVars,
                   appVars, listenVars, log>>

\* C1 mutant: the failure is logged but not thrown
MongoConnectFail_NoThrow ==
    /\ CallbackReady
    /\ mongoState = "pending"
    /\ mongoState' = "failed"
    /\ log' = Append(log, Entry(MongoMessage, ""))
    /\ UNCHANGED <<env, config, pc, alive, mongoAttempts, mongoUrl, redisVars,
                   appVars, listenVars>>

\* C9 mutant: the failure is logged and the connection is tried again
MongoConnectFail_Retry ==
    /\ CallbackReady
    /\ mongoState = "pending"
    /\ mongoAttempts < 2
    /\ mongoAttempts' = mongoAttempts + 1
    /\ log' = Append(log, Entry(MongoMessage, ""))
    /\ UNCHANGED <<env, config, pc, alive, mongoState, mongoUrl, redisVars,
                   appVars, listenVars>>

\* mongoose.connect callback, err truthy: console.log, then throw err
MongoConnectFail ==
    /\ CallbackReady
    /\ mongoState = "pending"
    /\ mongoState' = "failed"
    /\ log' = log \o << Entry(MongoMessage, ""),
                        Entry("uncaught", "mongo") >>
    /\ alive' = FALSE
    /\ UNCHANGED <<env, config, pc, mongoAttempts, mongoUrl, redisVars,
                   appVars, listenVars>>

\* redisClient.connect() resolves: no handler attached
RedisConnectOk ==
    /\ CallbackReady
    /\ redisState = "pending"
    /\ redisState' = "connected"
    /\ UNCHANGED <<env, config, pc, alive, mongoVars, redisAttempts, redisUrl,
                   appVars, listenVars, log>>

\* C2 mutant: the cache failure is treated like the database failure
RedisConnectFail_Throw ==
    /\ CallbackReady
    /\ redisState = "pending"
    /\ redisState' = "failed"
    /\ log' = log \o << Entry("console.error", "redis"),
                        Entry("uncaught", "redis") >>
    /\ alive' = FALSE
    /\ UNCHANGED <<env, config, pc, mongoVars, redisAttempts, redisUrl,
                   appVars, listenVars>>

\* redisClient.connect() rejects: .catch(console.error)
RedisConnectFail ==
    /\ CallbackReady
    /\ redisState = "pending"
    /\ redisState' = "failed"
    /\ log' = Append(log, Entry("console.error", "redis"))
    /\ UNCHANGED <<env, config, pc, alive, mongoVars, redisAttempts, redisUrl,
                   appVars, listenVars>>

\* C7 mutant: the server is closed again after the startup message
ListenOk_ThenClose ==
    /\ CallbackReady
    /\ listenState \in {"binding", "listening"}
    /\ listenState' = IF listenState = "binding" THEN "listening" ELSE "none"
    /\ log' = Append(log, Entry(ListenMessage, listenPort))
    /\ UNCHANGED <<env, config, pc, alive, mongoVars, redisVars, appVars,
                   listenPort>>

\* app.listen callback, no error: console.log(`Listening on port ${port}`)
ListenOk ==
    /\ CallbackReady
    /\ listenState = "binding"
    /\ listenState' = "listening"
    /\ log' = Append(log, Entry(ListenMessage, listenPort))
    /\ UNCHANGED <<env, config, pc, alive, mongoVars, redisVars, appVars,
                   listenPort>>

\* C6 mutant: the error is not thrown and the callback goes on to the message
ListenFail_Swallowed ==
    /\ CallbackReady
    /\ listenState = "binding"
    /\ listenState' = "failed"
    /\ log' = Append(log, Entry(ListenMessage, listenPort))
    /\ UNCHANGED <<env, config, pc, alive, mongoVars, redisVars, appVars,
                   listenPort>>

\* the listen call fails: the error is thrown (if (err) throw err; with no
\* 'error' listener on the server the error event is itself uncaught)
ListenFail ==
    /\ CallbackReady
    /\ listenState = "binding"
    /\ listenState' = "failed"
    /\ log' = Append(log, Entry("uncaught", "listen"))
    /\ alive' = FALSE
    /\ UNCHANGED <<env, config, pc, mongoVars, redisVars, appVars, listenPort>>

Next ==
    \/ LoadConfig
    \/ MongooseConnect
    \/ RedisCreateClient
    \/ RedisConnect
    \/ ExpressCreate
    \/ UseStatic
    \/ UseCompression
    \/ UseUrlencoded
    \/ UseSession
    \/ RegisterEngine
    \/ UseFavicon
    \/ UseCookieParser
    \/ MountRouter
    \/ AppListen
    \/ MongoConnectOk
    \/ MongoConnectFail
    \/ RedisConnectOk
    \/ RedisConnectFail
    \/ ListenOk
    \/ ListenFail

Spec == Init /\ [][Next]_vars

\* ---------------------------------------------------------------- helpers
Logged(m) == \E i \in 1..Len(log) : log[i].msg = m

Uncaught(a) == \E i \in 1..Len(log) : log[i] = Entry("uncaught", a)

Count(s, n) == Cardinality({i \in 1..Len(s) : s[i].name = n})

ListenAttempted == listenState # "none"

TypeOK ==
    /\ env \in Environments
    /\ config \in [Fields -> STRING]
    /\ alive \in BOOLEAN
    /\ mongoState \in {"idle", "pending", "connected", "failed"}
    /\ redisState \in {"none", "created", "pending", "connected", "failed"}
    /\ listenState \in {"none", "binding", "listening", "failed"}
    /\ mongoAttempts \in 0..1
    /\ redisAttempts \in 0..1

\* ----------------------------------------------------------------- claims
Set(f) == f \in DOMAIN env /\ env[f] # ""

\* C1 (as stated): whenever the database connection attempt has reported
\* failure, no listen attempt has been made in the execution.
C1_NoListenWhenMongoFails ==
    mongoState = "failed" => ~ListenAttempted

\* C1 (amended): whenever the database connection attempt has reported
\* failure, the thrown error has ended the process, the listen call was
\* already made by the top-level script before the failure callback ran, and
\* no step (in particular no listen attempt) follows the failure.
C1_MongoFailureFatalAfterListen ==
    /\ [](mongoState = "failed" =>
            ~alive /\ Uncaught("mongo") /\ ListenAttempted /\ pc = "done")
    /\ [][mongoState = "failed" => listenState' = listenState /\ ~alive']_vars

C1_Witness ==
    mongoState = "failed" /\ listenState = "listening" /\ ~alive

\* C2: a failure of the cache connection attempt is only logged: the step
\* that reports it leaves the process alive, no uncaught error is due to it,
\* and the execution contains the listen attempt on the configured port.
C2_RedisFailureTolerated ==
    /\ [](redisState = "failed" =>
            /\ log # <<>>
            /\ \E i \in 1..Len(log) : log[i] = Entry("console.error", "redis")
            /\ ~Uncaught("redis")
            /\ ListenAttempted
            /\ listenPort = config["port"])
    /\ [][redisState # "failed" /\ redisState' = "failed" =>
            alive /\ alive' /\ Len(log') = Len(log) + 1]_vars

C2_Witness ==
    redisState = "failed" /\ alive /\ listenState = "binding"

\* C3: once the listen call is reached, the registrations on the server are
\* exactly static, compression, urlencoded, session, engine, favicon,
\* cookieParser, router, in this order, none skipped or repeated.
C3_MiddlewareOrder ==
    ListenAttempted =>
        /\ Names(stack) = MiddlewareOrder
        /\ \A i, j \in 1..Len(stack) :
              (stack[i].name = "static" /\ stack[j].name = "session") => i < j
        /\ \A i, j \in 1..Len(stack) :
              (stack[i].name = "session" /\ stack[j].name = "router") => i < j

C3_Witness ==
    listenState = "binding" /\ Names(stack) = MiddlewareOrder
        /\ mongoState = "pending" /\ redisState = "pending"

\* C4: the listen call waits for neither connector: the step that makes the
\* listen attempt is always taken while both connection attempts are still
\* pending, and the success of the listen call needs no connector outcome.
C4_ListenDoesNotWait ==
    /\ [][~ListenAttempted /\ ListenAttempted' =>
            mongoState = "pending" /\ redisState = "pending"]_vars
    /\ [](listenState = "binding" /\ alive => ENABLED ListenOk)

C4_Witness ==
    listenState = "listening" /\ mongoState = "pending"
        /\ redisState = "pending" /\ alive

\* C5: after config resolution every field equals its environment variable
\* when that variable is set and non-empty and its default otherwise; an
\* environment setting every variable yields those values, one setting none
\* yields the defaults, and resolution never fails.
C5_ConfigResolution ==
    /\ [](pc # "config" =>
            /\ \A f \in Fields : Set(f) => config[f] = env[f]
            /\ \A f \in Fields : ~Set(f) => config[f] = Defaults[f]
            /\ (\A f \in Fields : Set(f)) => config = env
            /\ (DOMAIN env = {}) => config = Defaults)
    /\ [][pc = "config" => pc' = "mongoose" /\ alive']_vars

C5_Witness ==
    /\ pc # "config"
    /\ \E f \in Fields : Set(f)
    /\ \E f \in Fields : f \in DOMAIN env /\ env[f] = ""
    /\ \E f \in Fields : f \notin DOMAIN env

\* C6: a failed listen call ends the process with an uncaught error, and the
\* startup message is on the log only when the listen call succeeded.
C6_ListenFailureFatal ==
    /\ listenState = "failed" =>
          ~alive /\ Uncaught("listen") /\ ~Logged(ListenMessage)
    /\ Logged(ListenMessage) =>
          /\ listenState = "listening"
          /\ \A i \in 1..Len(log) :
                log[i].msg = ListenMessage => log[i].arg = config["port"]

C6_Witness ==
    listenState = "failed" /\ ~alive /\ mongoState = "pending"

\* C7: the server becomes listening only from a pending listen call made
\* after all registrations, at most once, and a listening server never
\* leaves the listening state.
C7_OneWayTransition ==
    /\ [](listenState = "listening" =>
            /\ Names(stack) = MiddlewareOrder
            /\ pc = "done"
            /\ Cardinality({i \in 1..Len(log) : log[i].msg = ListenMessage}) = 1)
    /\ [][listenState # "listening" /\ listenState' = "listening" =>
            listenState = "binding"]_vars
    /\ [][listenState = "listening" => listenState' = "listening"]_vars

C7_Witness ==
    listenState = "listening" /\ alive
        /\ mongoState = "connected" /\ redisState = "connected"

\* C8: the route table is mounted exactly once, with the server instance,
\* as the registration following the seven middleware registrations, before
\* the listen attempt; the server never listens without it.
C8_RouterMountedOnce ==
    /\ [](Count(stack, "router") <= 1)
    /\ [](\A i \in 1..Len(stack) : stack[i].name = "router" =>
            /\ i = Len(MiddlewareOrder)
            /\ stack[i].arg = "app"
            /\ Names(SubSeq(stack, 1, i - 1)) = SubSeq(MiddlewareOrder, 1, i - 1))
    /\ [](ListenAttempted => Count(stack, "router") = 1)
    /\ [][Count(stack', "router") # Count(stack, "router") =>
            ~ListenAttempted /\ ~ListenAttempted']_vars

C8_Witness ==
    Count(stack, "router") = 1 /\ pc = "listen" /\ ~ListenAttempted

\* C9: the database connection is attempted exactly once; when it fails the
\* message is logged before the error is thrown, the process is ended and
\* nothing (no retry) follows.
C9_MongoAttemptedOnce ==
    /\ [](mongoAttempts <= 1 /\ (pc \notin {"config", "mongoose"} => mongoAttempts = 1))
    /\ [](mongoState = "failed" =>
            /\ ~alive
            /\ Len(log) >= 2
            /\ log[Len(log) - 1] = Entry(MongoMessage, "")
            /\ log[Len(log)] = Entry("uncaught", "mongo"))
    /\ [](Logged(MongoMessage) => mongoState = "failed")
    /\ [][mongoState = "failed" =>
            mongoState' = "failed" /\ mongoAttempts' = mongoAttempts]_vars

C9_Witness ==
    mongoState = "failed" /\ ~alive /\ redisState = "connected"
        /\ mongoAttempts = 1

\* C10: the session middleware holds the cache client's handle and is
\* attached while the cache attempt is undecided; the cache connection is
\* attempted once, and once failed it stays failed, so a listening server
\* with sessions attached and a failed cache stays so while the process runs.
C10_CacheFailurePersists ==
    /\ [](redisAttempts <= 1)
    /\ [](Count(stack, "session") = 1 => sessionClient = "redisClient")
    /\ [][Count(stack', "session") # Count(stack, "session") =>
            redisState = "pending"]_vars
    /\ [][redisState = "failed" =>
            redisState' = "failed" /\ redisAttempts' = redisAttempts]_vars
    /\ [][(listenState = "listening" /\ redisState = "failed"
             /\ sessionClient = "redisClient") =>
          (listenState' = "listening" /\ redisState' = "failed"
             /\ sessionClient' = "redisClient")]_vars

C10_Witness ==
    listenState = "listening" /\ sessionClient = "redisClient"
        /\ Count(stack, "session") = 1 /\ redisState = "failed" /\ alive
        /\ mongoState = "connected"

====
